---- MODULE Spec2Model ----
(***************************************************************************)
(* State-machine model of the audio dataset web application (src/main.py). *)
(*                                                                         *)
(* Text (file names, labels, speaker names, language and gender tags) is   *)
(* modelled as a sequence of one-character strings, so that the            *)
(* character-level code (sanitizing, splitting the extension, parsing and  *)
(* formatting the numeric id) is modelled by what it does.                 *)
(*                                                                         *)
(* The store directory is a function from the names it holds to what is    *)
(* there (a regular file, a directory, or a symbolic link to a file        *)
(* outside the store); the metadata document metadata.json is kept apart   *)
(* in the variable meta (absent, unparsable, or a JSON object).            *)
(***************************************************************************)
EXTENDS Integers, Sequences, FiniteSets, TLC

VARIABLES store, meta, clock, steps, last, inflight

vars == <<store, meta, clock, steps, last, inflight>>

(***************************************************************************)
(* Bounds of the model.                                                    *)
(***************************************************************************)
\* number of requests served in one behaviour
MaxSteps == 1
\* number of files in one /upload batch
MaxBatch == 2
\* clock ticks per second (file times have sub-second resolution)
TicksPerSec == 2
\* longest short name given to the sanitizer on its own
MaxNameLen == 3

(***************************************************************************)
(* Characters and text.                                                    *)
(***************************************************************************)
\* the characters of the model in code-point order
CharOrder ==
  << "\t", " ", "-", ".", "/",
     "0", "1", "2", "3", "4", "5", "6", "7", "8", "9",
     "A", "B", "C", "D", "E", "F", "G", "H", "I", "J", "K", "L", "M",
     "N", "O", "P", "Q", "R", "S", "T", "U", "V", "W", "X", "Y", "Z",
     "_",
     "a", "b", "c", "d", "e", "f", "g", "h", "i", "j", "k", "l", "m",
     "n", "o", "p", "q", "r", "s", "t", "u", "v", "w", "x", "y", "z" >>

CharSet == {CharOrder[i] : i \in 1..Len(CharOrder)}
\* the rank of each character, tabulated
OrdTable == [c \in CharSet |-> CHOOSE i \in 1..Len(CharOrder) : CharOrder[i] = c]
Ord(c) == OrdTable[c]

Digits == <<"0", "1", "2", "3", "4", "5", "6", "7", "8", "9">>
DigitSet == {Digits[i] : i \in 1..10}
UpperSet == {CharOrder[i] : i \in Ord("A")..Ord("Z")}
LowerSet == {CharOrder[i] : i \in Ord("a")..Ord("z")}
SpaceSet == {"\t", " "}
ControlSet == {"\t"}

\* str.lower() on one character
LowerChar(c) == IF c \in UpperSet THEN CharOrder[Ord(c) - Ord("A") + Ord("a")] ELSE c
Lower(s) == [i \in 1..Len(s) |-> LowerChar(s[i])]

\* s[a..b] with Python's clamping of the ends
Slice(s, a, b) == IF a > b THEN <<>> ELSE SubSeq(s, a, b)
Take(s, n) == Slice(s, 1, IF n < Len(s) THEN n ELSE Len(s))

\* str.strip(): drop leading and trailing white space
Inked(s) == {i \in 1..Len(s) : s[i] \notin SpaceSet}
LStrip(s) ==
  IF Inked(s) = {} THEN <<>> ELSE Slice(s, CHOOSE i \in Inked(s) : \A j \in Inked(s) : i <= j, Len(s))
RStrip(s) ==
  IF Inked(s) = {} THEN <<>> ELSE Slice(s, 1, CHOOSE i \in Inked(s) : \A j \in Inked(s) : j <= i)
Strip(s) == RStrip(LStrip(s))

\* positions of character c in s
Positions(s, c) == {i \in 1..Len(s) : s[i] = c}
MaxOf(S) == CHOOSE x \in S : \A y \in S : y <= x
MinOf(S) == CHOOSE x \in S : \A y \in S : x <= y

\* lexicographic order of two texts by code point (the order of sorted())
RECURSIVE TextLess(_, _)
TextLess(a, b) ==
  IF b = <<>> THEN FALSE
  ELSE IF a = <<>> THEN TRUE
  ELSE IF Head(a) # Head(b) THEN Ord(Head(a)) < Ord(Head(b))
  ELSE TextLess(Tail(a), Tail(b))

\* the members of a finite set of texts as a sorted sequence
RECURSIVE SortedTexts(_)
SortedTexts(S) ==
  IF S = {} THEN <<>>
  ELSE LET m == CHOOSE x \in S : \A y \in S \ {x} : TextLess(x, y)
       IN <<m>> \o SortedTexts(S \ {m})

(***************************************************************************)
(* Program constants.                                                      *)
(***************************************************************************)
EXT_MP3 == <<".", "m", "p", "3">>
EXT_WAV == <<".", "w", "a", "v">>
EXT_M4A == <<".", "m", "4", "a">>
EXT_AAC == <<".", "a", "a", "c">>
EXT_OGG == <<".", "o", "g", "g">>
EXT_FLAC == <<".", "f", "l", "a", "c">>
EXT_OPUS == <<".", "o", "p", "u", "s">>
EXT_WMA == <<".", "w", "m", "a">>
EXT_AIFF == <<".", "a", "i", "f", "f">>
ALLOWED_EXTENSIONS ==
  {EXT_MP3, EXT_WAV, EXT_M4A, EXT_AAC, EXT_OGG, EXT_FLAC, EXT_OPUS, EXT_WMA, EXT_AIFF}

METADATA_NAME == <<"m", "e", "t", "a", "d", "a", "t", "a", ".", "j", "s", "o", "n">>

KHMER == <<"K", "h", "m", "e", "r">>
ENGLISH == <<"E", "n", "g", "l", "i", "s", "h">>
MIX_BOTH == <<"M", "i", "x", "-", "B", "o", "t", "h">>
MALE == <<"M", "a", "l", "e">>
FEMALE == <<"F", "e", "m", "a", "l", "e">>
NONE_TEXT == <<"N", "o", "n", "e">>
FILE_TEXT == <<"f", "i", "l", "e">>
LANGS == {KHMER, ENGLISH, MIX_BOTH}
GENDERS == {MALE, FEMALE}

\* width of the numeric id in a stored name
ID_WIDTH == 6
\* longest sanitized name, and the parts kept of a longer one
NAME_MAX == 200
NAME_ROOT_KEEP == 180
NAME_EXT_KEEP == 20
\* longest label
LABEL_MAX == 200
\* step between the units of a displayed size
SIZE_STEP == 1024

(***************************************************************************)
(* Pure helpers of the program.                                            *)
(***************************************************************************)
\* str.rfind(c), counting from 1; 0 when c is not in s
RFind(s, c) == IF Positions(s, c) = {} THEN 0 ELSE MaxOf(Positions(s, c))

\* os.path.basename: what follows the last "/"
Basename(name) == Slice(name, RFind(name, "/") + 1, Len(name))

\* os.path.splitext: the extension starts at the last dot, unless only dots
\* come before it in the last component
SplitExtAt(p, sep, dot) ==
  IF dot > sep /\ \E i \in (sep + 1)..(dot - 1) : p[i] # "."
  THEN [root |-> Slice(p, 1, dot - 1), ext |-> Slice(p, dot, Len(p))]
  ELSE [root |-> p, ext |-> <<>>]
SplitExt(p) == SplitExtAt(p, RFind(p, "/"), RFind(p, "."))

\* pathlib's Path.suffix and Path.stem of a name: the last dot counts when it
\* is neither the first nor the last character
SuffixAt(name, d) == IF 1 < d /\ d < Len(name) THEN Slice(name, d, Len(name)) ELSE <<>>
StemAt(name, d) == IF 1 < d /\ d < Len(name) THEN Slice(name, 1, d - 1) ELSE name
PathSuffix(name) == SuffixAt(name, RFind(name, "."))
PathStem(name) == StemAt(name, RFind(name, "."))

\* re.sub(r"[^A-Za-z0-9._-]", "_", base)
SafeChar(c) ==
  IF c \in UpperSet \cup LowerSet \cup DigitSet \cup {".", "_", "-"} THEN c ELSE "_"

\* _safe_filename
Substitute(base) == [i \in 1..Len(base) |-> SafeChar(base[i])]
NonEmptyName(base) ==
  IF base = <<>> \/ base \in {<<".">>, <<".", ".">>} THEN FILE_TEXT ELSE base
\* a sanitizer that keeps a long name whole
TruncateNot(base) == base

Truncate(base) ==
  IF Len(base) > NAME_MAX
  THEN Take(SplitExt(base).root, NAME_ROOT_KEEP) \o Take(SplitExt(base).ext, NAME_EXT_KEEP)
  ELSE base
SafeFilename(name) == Truncate(NonEmptyName(Substitute(Strip(Basename(name)))))

\* str.isdigit() on the characters of the model
IsDigitText(s) == s # <<>> /\ \A i \in 1..Len(s) : s[i] \in DigitSet

DigitValue(c) == Ord(c) - Ord("0")

\* int(stem) of a text of digits
RECURSIVE ParseFrom(_, _, _)
ParseFrom(s, i, acc) ==
  IF i > Len(s) THEN acc ELSE ParseFrom(s, i + 1, 10 * acc + DigitValue(s[i]))
ParseInt(s) == ParseFrom(s, 1, 0)

\* the decimal digits of n >= 0
RECURSIVE Decimal(_)
Decimal(n) ==
  IF n < 10 THEN <<Digits[n + 1]>> ELSE Decimal(n \div 10) \o <<Digits[(n % 10) + 1]>>

RECURSIVE ZeroPad(_, _)
ZeroPad(s, w) == IF Len(s) >= w THEN s ELSE ZeroPad(<<"0">> \o s, w)

\* f"{next_num:06d}": zero-padded to at least ID_WIDTH digits
FormatId(n) == ZeroPad(Decimal(n), ID_WIDTH)

\* a value with two decimals, rounded half to even, in hundredths
Hundredths(num, den) ==
  LET q == (num * 100) \div den
      r == (num * 100) % den
  IN IF 2 * r > den \/ (2 * r = den /\ q % 2 = 1) THEN q + 1 ELSE q

\* _human_size: the running value is divided by the step once per unit passed
\* and once more when it is formatted; the result is <<number, unit>>, the
\* number in hundredths for every unit but B
RECURSIVE HumanSizeFrom(_, _, _)
HumanSizeFrom(n, den, units) ==
  IF n < den * SIZE_STEP \/ Len(units) = 1
  THEN IF Head(units) = "B" THEN <<n, "B">>
       ELSE <<Hundredths(n, den * SIZE_STEP), Head(units)>>
  ELSE HumanSizeFrom(n, den * SIZE_STEP, Tail(units))

HumanSize(n) == HumanSizeFrom(n, 1, <<"B", "KB", "MB", "GB", "TB">>)

\* datetime.fromtimestamp(mtime).strftime("%Y-%m-%d %H:%M:%S"): whole seconds
MtimeIso(mtime) == mtime \div TicksPerSec

\* re.sub(r"[\x00-\x1F\x7F]", "", label)[:200]
StripControl(s) == SelectSeq(s, LAMBDA c : c \notin ControlSet)
CleanLabel(s) == Take(StripControl(s), LABEL_MAX)

(***************************************************************************)
(* The store directory and the metadata document.                          *)
(***************************************************************************)
\* where the store directory and a file outside it live, as path components
UPLOAD_DIR == << <<"a", "p", "p">>, <<"u", "p", "l", "o", "a", "d", "s">> >>
OutsidePath == << <<"e", "t", "c">>, <<"p", "a", "s", "s", "w", "d">> >>
OutsideFiles == {OutsidePath}

\* what the store directory holds under one name
RegularFile(size, mtime) ==
  [kind |-> "file", size |-> size, mtime |-> mtime, target |-> <<>>]
Directory == [kind |-> "dir", size |-> 0, mtime |-> 0, target |-> <<>>]
LinkOut(size, mtime) ==
  [kind |-> "link", size |-> size, mtime |-> mtime, target |-> OutsidePath]

\* one value of the metadata object: a record (JSON object) or a bare string
DictEntry(f) == [shape |-> "dict", text |-> <<>>, fields |-> f]
StrEntry(s) == [shape |-> "str", text |-> s, fields |-> <<>>]

\* the document: absent, unparsable, or an object doc from names to values
MetaAbsent == [state |-> "absent", doc |-> <<>>]
MetaCorrupt == [state |-> "corrupt", doc |-> <<>>]
MetaOk(d) == [state |-> "ok", doc |-> d]

\* a document holding the one entry k and nothing of d
PutAlone(d, k, v) == [x \in {k} |-> v]

\* d with d[k] set to v, k added to its keys when new
Put(d, k, v) == [x \in (DOMAIN d) \cup {k} |-> IF x = k THEN v ELSE d[x]]

\* the byte length of a serialized document, abstracted to its entry count
DocSize(m) == IF m.state = "ok" THEN Cardinality(DOMAIN m.doc) ELSE 0

\* Path.exists() of UPLOAD_DIR / name
PathExists(st, m, name) ==
  name \in DOMAIN st \/ (name = METADATA_NAME /\ m.state # "absent")

\* a test that takes every existing entry, directories too, for a file
PathIsFileOrDirectory(st, m, name) == PathExists(st, m, name)

\* Path.is_file() of UPLOAD_DIR / name (a link is followed)
PathIsFile(st, m, name) ==
  \/ name \in DOMAIN st /\ st[name].kind \in {"file", "link"}
  \/ name = METADATA_NAME /\ m.state # "absent"

\* Path.stat() of UPLOAD_DIR / name, for a name that is a file
PathStat(st, m, clk, name) ==
  IF name \in DOMAIN st
  THEN [size |-> st[name].size, mtime |-> st[name].mtime]
  ELSE [size |-> DocSize(m), mtime |-> clk]

\* the metadata object a handler loads: {} when the document is absent or
\* does not parse
LoadDoc(m) == IF m.state = "ok" THEN m.doc ELSE <<>>

\* METADATA_PATH.write_text(json.dumps(data)): it succeeds, or fails before
\* the document is touched, or fails after truncating it
WriteOutcomes == {"ok", "denied", "torn"}
WriteDoc(m, data, outcome) ==
  CASE outcome = "ok" -> MetaOk(data)
    [] outcome = "denied" -> m
    [] outcome = "torn" -> MetaCorrupt

\* str(d.get(key) or default) for a text field, bool(d.get(key) or False)
GetText(f, key, default) ==
  IF key \in DOMAIN f /\ f[key] # <<>> THEN f[key] ELSE default
GetBool(f, key) == key \in DOMAIN f /\ f[key] = TRUE

\* the annotation keys list_files fills in when missing
DefaultedKeys == {"label", "verified", "lang", "gender", "speaker"}

(***************************************************************************)
(* list_files.                                                             *)
(***************************************************************************)
\* the names the scan keeps, in the order of sorted(UPLOAD_DIR.glob("*"))
ListedNames(st) ==
  SortedTexts({n \in DOMAIN st :
                 /\ st[n].kind \in {"file", "link"}
                 /\ n # METADATA_NAME
                 /\ Lower(PathSuffix(n)) \in ALLOWED_EXTENSIONS})

\* a record that is written without its speaker
RecordWithoutSpeaker(label, verified, lang, gender, speaker, size, mtime) ==
  [label |-> label, verified |-> verified, lang |-> lang, gender |-> gender,
   size_h |-> HumanSize(size), size_bytes |-> size, mtime_iso |-> MtimeIso(mtime)]

FullRecord(label, verified, lang, gender, speaker, size, mtime) ==
  [label |-> label, verified |-> verified, lang |-> lang, gender |-> gender,
   speaker |-> speaker, size_h |-> HumanSize(size), size_bytes |-> size,
   mtime_iso |-> MtimeIso(mtime)]

Item(name, size, mtime, label, verified, lang, gender, speaker) ==
  [name |-> name, size |-> size, size_h |-> HumanSize(size), mtime |-> mtime,
   mtime_iso |-> MtimeIso(mtime), label |-> label, verified |-> verified,
   lang |-> lang, gender |-> gender, speaker |-> speaker]

\* the local variable speaker of list_files: unbound until a record sets it
SpeakerUnbound == [bound |-> FALSE, val |-> <<>>]
SpeakerBound(v) == [bound |-> TRUE, val |-> v]
SpeakerLocal(spk) == IF spk.bound THEN spk.val ELSE <<>>

\* one pass of the loop body, for the file name; acc carries the metadata
\* object, the dirty flag, the items and the local variable speaker
ListOne(acc, st, name) ==
  LET size == st[name].size
      mtime == st[name].mtime
      has == name \in DOMAIN acc.data
      mv == acc.data[name]
  IN IF has /\ mv.shape = "dict"
     THEN LET f == mv.fields
              label == GetText(f, "label", <<>>)
              verified == GetBool(f, "verified")
              lang == GetText(f, "lang", KHMER)
              gender == GetText(f, "gender", MALE)
              speaker == GetText(f, "speaker", <<>>)
              changed ==
                \/ \E k \in DefaultedKeys : k \notin DOMAIN f
                \/ "size_h" \notin DOMAIN f \/ f["size_h"] # HumanSize(size)
                \/ "size_bytes" \notin DOMAIN f \/ f["size_bytes"] # size
                \/ "mtime_iso" \notin DOMAIN f \/ f["mtime_iso"] # MtimeIso(mtime)
          IN [data |-> Put(acc.data, name,
                           DictEntry(FullRecord(label, verified, lang, gender,
                                                speaker, size, mtime))),
              dirty |-> acc.dirty \/ changed,
              items |-> Append(acc.items,
                               Item(name, size, mtime, label, verified, lang,
                                    gender, speaker)),
              spk |-> SpeakerBound(speaker)]
     ELSE LET label == IF has /\ mv.shape = "str" THEN mv.text ELSE <<>>
          IN [data |-> Put(acc.data, name,
                           DictEntry(FullRecord(label, FALSE, KHMER, MALE, <<>>,
                                                size, mtime))),
              dirty |-> TRUE,
              items |-> Append(acc.items,
                               Item(name, size, mtime, label, FALSE, KHMER, MALE,
                                    SpeakerLocal(acc.spk))),
              spk |-> acc.spk]

RECURSIVE ListLoop(_, _, _)
ListLoop(acc, st, names) ==
  IF names = <<>> THEN acc
  ELSE CHOOSE out \in {ListLoop(a, st, Tail(names)) : a \in {ListOne(acc, st, Head(names))}} :
         TRUE

\* items.sort(key=mtime, reverse=True): stable, most recent first
RECURSIVE SortByMtimeDesc(_)
SortByMtimeDesc(items) ==
  IF items = <<>> THEN <<>>
  ELSE LET x == items[Len(items)]
           rest == SortByMtimeDesc(Slice(items, 1, Len(items) - 1))
           before == SelectSeq(rest, LAMBDA y : y.mtime >= x.mtime)
           after == SelectSeq(rest, LAMBDA y : y.mtime < x.mtime)
       IN before \o <<x>> \o after

\* the body of list_files up to the write: the items returned, the normalized
\* metadata object and the dirty flag
ListFiles(st, m) ==
  LET acc == ListLoop([data |-> LoadDoc(m), dirty |-> FALSE, items |-> <<>>,
                       spk |-> SpeakerUnbound], st, ListedNames(st))
  IN [items |-> SortByMtimeDesc(acc.items), data |-> acc.data, dirty |-> acc.dirty]

(***************************************************************************)
(* The field updaters /label, /speaker, /verify, /lang, /gender.           *)
(* Each operator gives the document after the request and the response.    *)
(***************************************************************************)
ErrorResp(msg) == [kind |-> "error", error |-> msg, value |-> <<>>]
OkResp(v) == [kind |-> "ok", error |-> "", value |-> v]
\* the ok response of /verify, which carries the flag
OkVerified(v) == [kind |-> "ok", error |-> "", verified |-> v]
\* the handler returned nothing (the body of the response is null)
NullResp == [kind |-> "null", error |-> "", value |-> <<>>]
\* the handler raised (HTTP 500)
CrashResp == [kind |-> "crash", error |-> "", value |-> <<>>]

NOT_FOUND == "File not found"
WRITE_FAILED == "Failed to write metadata"
INVALID_LANGUAGE == "Invalid language"
INVALID_GENDER == "Invalid gender"

\* text or "None"
OrNone(t) == IF t = <<>> THEN NONE_TEXT ELSE t

\* the record the handlers other than set_speaker write: it has no speaker key
RecordNoSpeaker(label, verified, lang, gender, stat) ==
  [label |-> label, verified |-> verified, lang |-> lang, gender |-> gender,
   size_h |-> HumanSize(stat.size), size_bytes |-> stat.size,
   mtime_iso |-> MtimeIso(stat.mtime)]

RecordWithSpeaker(label, verified, lang, gender, speaker, stat) ==
  [label |-> label, verified |-> verified, lang |-> lang, gender |-> gender,
   speaker |-> speaker, size_h |-> HumanSize(stat.size), size_bytes |-> stat.size,
   mtime_iso |-> MtimeIso(stat.mtime)]

\* entry = data.get(safe) read as a record: its fields, {} for a bare string
\* or no entry
EntryFields(data, safe) ==
  IF safe \in DOMAIN data /\ data[safe].shape = "dict" THEN data[safe].fields ELSE <<>>
\* the label a handler keeps: the bare string itself for a legacy entry
EntryLabel(data, safe) ==
  IF safe \in DOMAIN data /\ data[safe].shape = "str" THEN data[safe].text
  ELSE GetText(EntryFields(data, safe), "label", <<>>)

\* the end of a writing handler: persist data, answer ok or the write error
Persist(m, data, outcome, okResp) ==
  [m |-> WriteDoc(m, data, outcome),
   resp |-> IF outcome = "ok" THEN okResp ELSE ErrorResp(WRITE_FAILED)]

set_label(st, m, clk, filename, rawLabel, outcome) ==
  LET safe == SafeFilename(Strip(filename))
      label == CleanLabel(Strip(rawLabel))
      data == LoadDoc(m)
      f == EntryFields(data, safe)
      rec == RecordNoSpeaker(label, GetBool(f, "verified"), GetText(f, "lang", KHMER),
                             GetText(f, "gender", MALE), PathStat(st, m, clk, safe))
  IN IF ~PathExists(st, m, safe) \/ ~PathIsFile(st, m, safe)
     THEN [m |-> m, resp |-> ErrorResp(NOT_FOUND)]
     ELSE Persist(m, Put(data, safe, DictEntry(rec)), outcome, OkResp(OrNone(label)))

set_speaker(st, m, clk, filename, rawSpeaker, outcome) ==
  LET safe == SafeFilename(Strip(filename))
      speaker == Strip(rawSpeaker)
      data == LoadDoc(m)
      \* entry = data.get(safe) or {}: a non-empty bare string stays a string
      isText == safe \in DOMAIN data /\ data[safe].shape = "str"
                  /\ data[safe].text # <<>>
      f == EntryFields(data, safe)
      rec == RecordWithSpeaker(GetText(f, "label", <<>>), GetBool(f, "verified"),
                               GetText(f, "lang", KHMER), GetText(f, "gender", MALE),
                               speaker, PathStat(st, m, clk, safe))
  IN IF ~PathExists(st, m, safe) \/ ~PathIsFile(st, m, safe)
     THEN [m |-> m, resp |-> ErrorResp(NOT_FOUND)]
     ELSE IF isText
     THEN [m |-> m, resp |-> CrashResp]
     ELSE Persist(m, Put(data, safe, DictEntry(rec)), outcome, OkResp(OrNone(speaker)))

set_verified(st, m, clk, filename, verified, outcome) ==
  LET safe == SafeFilename(Strip(filename))
      data == LoadDoc(m)
      f == EntryFields(data, safe)
      rec == RecordNoSpeaker(EntryLabel(data, safe), verified, GetText(f, "lang", KHMER),
                             GetText(f, "gender", MALE), PathStat(st, m, clk, safe))
  IN IF ~PathExists(st, m, safe) \/ ~PathIsFile(st, m, safe)
     THEN [m |-> m, resp |-> ErrorResp(NOT_FOUND)]
     ELSE Persist(m, Put(data, safe, DictEntry(rec)), outcome, OkVerified(verified))

\* set_language builds the new record and returns without writing it
set_language(st, m, clk, filename, rawLang) ==
  LET safe == SafeFilename(Strip(filename))
      lang == Strip(IF rawLang = <<>> THEN KHMER ELSE rawLang)
  IN IF lang \notin LANGS
     THEN [m |-> m, resp |-> ErrorResp(INVALID_LANGUAGE)]
     ELSE IF ~PathExists(st, m, safe) \/ ~PathIsFile(st, m, safe)
     THEN [m |-> m, resp |-> ErrorResp(NOT_FOUND)]
     ELSE [m |-> m, resp |-> NullResp]

set_gender(st, m, clk, filename, rawGender, outcome) ==
  LET safe == SafeFilename(Strip(filename))
      gender == Strip(IF rawGender = <<>> THEN MALE ELSE rawGender)
      data == LoadDoc(m)
      f == EntryFields(data, safe)
      rec == RecordNoSpeaker(EntryLabel(data, safe), GetBool(f, "verified"),
                             GetText(f, "lang", KHMER), gender,
                             PathStat(st, m, clk, safe))
  IN IF gender \notin GENDERS
     THEN [m |-> m, resp |-> ErrorResp(INVALID_GENDER)]
     ELSE IF ~PathExists(st, m, safe) \/ ~PathIsFile(st, m, safe)
     THEN [m |-> m, resp |-> ErrorResp(NOT_FOUND)]
     ELSE Persist(m, Put(data, safe, DictEntry(rec)), outcome, OkResp(gender))
(***************************************************************************)
(* The filename allocator and the upload handlers.                         *)
(***************************************************************************)
\* the ids of the scan: regular files whose stem is ID_WIDTH digits
ExistingNums(st) ==
  LET stems == {PathStem(x) : x \in {y \in DOMAIN st :
                   y # METADATA_NAME /\ st[y].kind \in {"file", "link"}}}
  IN {ParseInt(s) : s \in {t \in stems : Len(t) = ID_WIDTH /\ IsDigitText(t)}}

\* a scan that starts at the largest id instead of after it
FirstNumAtMax(nums) == IF nums = {} THEN 1 ELSE MaxOf(nums)

\* next_num = max(existing_nums) + 1 if existing_nums else 1
FirstNumOf(nums) == IF nums = {} THEN 1 ELSE MaxOf(nums) + 1
FirstNum(st) == FirstNumOf(ExistingNums(st))

Candidate(n, ext) == FormatId(n) \o ext

\* the probing loop: the first number from n on whose candidate does not exist
RECURSIVE Probe(_, _, _, _)
Probe(st, m, n, ext) ==
  IF PathExists(st, m, Candidate(n, ext)) THEN Probe(st, m, n + 1, ext) ELSE n

\* a counter that is not moved past the id it handed out
AdvanceNot(n) == n

\* the running counter after a candidate was taken
Advance(n) == n + 1

\* an extension test that forgets to lower-case
UploadExtCased(filename) ==
  SplitExt(SafeFilename(IF filename = <<>> THEN FILE_TEXT ELSE filename)).ext

\* the extension the handlers test: of the sanitized name, lower-cased
UploadExt(filename) ==
  Lower(SplitExt(SafeFilename(IF filename = <<>> THEN FILE_TEXT ELSE filename)).ext)

\* the entry /upload writes for a new file
UploadRecord(stat) == RecordNoSpeaker(<<>>, FALSE, KHMER, MALE, stat)

\* one file of an /upload batch; acc carries the store, the document, the
\* clock, the running counter and the names allocated so far
UploadOne(acc, uf) ==
  LET ext == UploadExt(uf.filename)
      n == Probe(acc.st, acc.m, acc.next, ext)
      target == Candidate(n, ext)
      st2 == Put(acc.st, target, RegularFile(uf.size, acc.clk))
      stat == [size |-> uf.size, mtime |-> acc.clk]
      data == Put(LoadDoc(acc.m), target, DictEntry(UploadRecord(stat)))
  IN IF ext \notin ALLOWED_EXTENSIONS
     THEN acc
     ELSE [st |-> st2, m |-> WriteDoc(acc.m, data, uf.outcome), clk |-> acc.clk + 1,
           next |-> Advance(n), allocated |-> Append(acc.allocated, target)]

RECURSIVE UploadLoop(_, _)
UploadLoop(acc, files) ==
  IF files = <<>> THEN acc
  ELSE CHOOSE out \in {UploadLoop(a, Tail(files)) : a \in {UploadOne(acc, Head(files))}} :
         TRUE

\* /upload
upload(st, m, clk, files) ==
  UploadLoop([st |-> st, m |-> m, clk |-> clk, next |-> FirstNum(st),
              allocated |-> <<>>], files)

\* the entry /upload_outside writes for a new file
OutsideRecord(uf, form, stat) ==
  LET lang == IF form.language \in LANGS THEN form.language ELSE KHMER
      gen == IF form.gender \in GENDERS THEN form.gender ELSE NONE_TEXT
      orig == IF uf.filename = <<>> THEN FILE_TEXT ELSE uf.filename
  IN [label |-> form.label, verified |-> form.verified, lang |-> lang,
      gender |-> gen, speaker |-> form.speaker,
      size_h |-> HumanSize(stat.size), size_bytes |-> stat.size,
      mtime_iso |-> MtimeIso(stat.mtime), original_name |-> orig]

\* /upload_outside: one file with its annotation as form fields
upload_outside(st, m, clk, uf, form) ==
  LET ext == UploadExt(uf.filename)
      n == Probe(st, m, FirstNum(st), ext)
      target == Candidate(n, ext)
      stat == [size |-> uf.size, mtime |-> clk]
      rec == OutsideRecord(uf, form, stat)
  IN IF ext \notin ALLOWED_EXTENSIONS
     THEN [st |-> st, m |-> m, clk |-> clk, allocated |-> <<>>,
           resp |-> ErrorResp("Unsupported file type")]
     ELSE [st |-> Put(st, target, RegularFile(uf.size, clk)),
           m |-> WriteDoc(m, Put(LoadDoc(m), target, DictEntry(rec)), uf.outcome),
           clk |-> clk + 1, allocated |-> <<target>>, resp |-> OkResp(target)]

(***************************************************************************)
(* /download and /stream.                                                  *)
(***************************************************************************)
\* the components of a path text, split at "/"
RECURSIVE SplitPath(_)
SplitPath(p) ==
  LET seps == Positions(p, "/")
  IN IF seps = {} THEN <<p>>
     ELSE <<Slice(p, 1, MinOf(seps) - 1)>> \o SplitPath(Slice(p, MinOf(seps) + 1, Len(p)))

\* walking components from a directory: "" and "." stay, ".." climbs
RECURSIVE Walk(_, _)
Walk(dir, comps) ==
  IF comps = <<>> THEN dir
  ELSE IF Head(comps) \in {<<>>, <<".">>} THEN Walk(dir, Tail(comps))
  ELSE IF Head(comps) = <<".", ".">>
  THEN Walk(Slice(dir, 1, Len(dir) - 1), Tail(comps))
  ELSE Walk(Append(dir, Head(comps)), Tail(comps))

\* (UPLOAD_DIR / name).resolve(): an absolute name replaces the directory,
\* dots are walked and a symbolic link is followed to its target
Resolve(st, name) ==
  LET lexical == IF name # <<>> /\ Head(name) = "/"
                 THEN Walk(<<>>, SplitPath(name))
                 ELSE Walk(UPLOAD_DIR, SplitPath(name))
      inside == Len(lexical) = Len(UPLOAD_DIR) + 1
                  /\ Slice(lexical, 1, Len(UPLOAD_DIR)) = UPLOAD_DIR
      leaf == lexical[Len(lexical)]
  IN IF inside /\ leaf \in DOMAIN st /\ st[leaf].kind = "link"
     THEN st[leaf].target ELSE lexical

\* a handler without the containment test
ContainedAlways(path) == TRUE

\* path.relative_to(UPLOAD_DIR.resolve()) does not raise
Contained(path) ==
  Len(path) >= Len(UPLOAD_DIR) /\ Slice(path, 1, Len(UPLOAD_DIR)) = UPLOAD_DIR

\* path.exists() and path.is_file() of a resolved path
ResolvedIsFile(st, m, path) ==
  \/ path \in OutsideFiles
  \/ /\ Len(path) = Len(UPLOAD_DIR) + 1
     /\ Slice(path, 1, Len(UPLOAD_DIR)) = UPLOAD_DIR
     /\ PathIsFile(st, m, path[Len(path)])

\* the response of /download and of /stream: a status and the path served
Serve(st, m, filename) ==
  LET path == Resolve(st, SafeFilename(filename))
  IN IF ~Contained(path) THEN [status |-> 400, path |-> <<>>]
     ELSE IF ~ResolvedIsFile(st, m, path) THEN [status |-> 404, path |-> <<>>]
     ELSE [status |-> 200, path |-> path]

download(st, m, filename) == Serve(st, m, filename)
stream(st, m, filename) == Serve(st, m, filename)
(***************************************************************************)
(* Inputs and initial states.                                              *)
(***************************************************************************)
N1 == Candidate(1, EXT_MP3)
N2 == Candidate(2, EXT_WAV)
N2_MP3 == Candidate(2, EXT_MP3)
N999999 == Candidate(999999, EXT_MP3)
NOTES == <<"n", "o", "t", "e", "s", ".", "t", "x", "t">>
LINK == <<"l", "n", "k">>
TRAVERSAL ==
  <<".", ".", "/", ".", ".", "/", "e", "t", "c", "/", "p", "a", "s", "s", "w", "d">>
CLIP_MP3 == <<"c", "l", "i", "p", ".", "m", "p", "3">>
CLIP2_WAV == <<"c", "l", "i", "p", "2", ".", "W", "A", "V">>
HELLO == <<"H", "e", "l", "l", "o">>
OLD == <<"o", "l", "d">>
BOB == <<"b", "o", "b">>
OTHER_TAG == <<"O", "t", "h", "e", "r">>
TABBED == <<"a", "\t", "b">>

\* the sizes of file contents, in bytes: below and above the first unit step
SmallSize == 3
LargeSize == 2 * SIZE_STEP

\* the store directories a behaviour starts from
InitStores ==
  { <<>>,
    N1 :> RegularFile(SmallSize, 0) @@ N2 :> RegularFile(LargeSize, 1),
    N999999 :> RegularFile(SmallSize, 0),
    N1 :> RegularFile(SmallSize, 1) @@ N2_MP3 :> Directory
       @@ NOTES :> RegularFile(SmallSize, 0) @@ LINK :> LinkOut(LargeSize, 0) }

\* the documents a behaviour starts from: absent, unparsable, or an object
\* holding, for each listed file, nothing, a bare string or a partial record
InitDocs(st) ==
  LET names == {ListedNames(st)[i] : i \in 1..Len(ListedNames(st))}
      choices == [names -> {"none", "str", "partial"}]
      entry(c) == IF c = "str" THEN StrEntry(OLD)
                  ELSE DictEntry([label |-> HELLO, speaker |-> BOB])
  IN {[n \in {x \in names : ch[x] # "none"} |-> entry(ch[n])] : ch \in choices}

InitMetas(st) == {MetaAbsent, MetaCorrupt} \cup {MetaOk(d) : d \in InitDocs(st)}

\* the file names clients send to the field updaters, and to /download and
\* /stream
UpdateNames == {N1, N2_MP3}
ServeNames == {N1, N2_MP3, LINK, TRAVERSAL}
LabelInputs == {<<>>, HELLO}
SpeakerInputs == {<<>>, BOB}
LangInputs == {<<>>, ENGLISH, OTHER_TAG}
GenderInputs == {<<>>, FEMALE, OTHER_TAG}

\* the outcomes of the write a field updater makes for the name filename:
\* it writes only when the sanitized name is a file
OutcomesFor(filename) ==
  IF PathIsFile(store, meta, SafeFilename(Strip(filename))) THEN WriteOutcomes ELSE {"ok"}

\* the files clients upload, each with the outcome of its metadata write
UploadFile(filename, outcome) ==
  [filename |-> filename, size |-> LargeSize, outcome |-> outcome]
UploadFiles ==
  {UploadFile(CLIP_MP3, "ok"), UploadFile(CLIP2_WAV, "torn"), UploadFile(NOTES, "ok")}
OutsideFileInputs ==
  {UploadFile(CLIP_MP3, "ok"), UploadFile(CLIP_MP3, "denied"),
   UploadFile(CLIP2_WAV, "torn"), UploadFile(NOTES, "ok")}
Batches == UNION {[1..k -> UploadFiles] : k \in 1..MaxBatch}
Forms ==
  { [label |-> <<>>, language |-> KHMER, gender |-> <<>>, verified |-> FALSE,
     speaker |-> <<>>],
    [label |-> HELLO, language |-> OTHER_TAG, gender |-> FEMALE, verified |-> TRUE,
     speaker |-> BOB],
    [label |-> TABBED, language |-> ENGLISH, gender |-> MALE, verified |-> FALSE,
     speaker |-> <<>>] }

NoRequest == [op |-> "none"]

\* no request is part-way through its handler
Idle == [pc |-> "idle"]

Init ==
  /\ store \in InitStores
  /\ meta \in InitMetas(store)
  /\ clock = 2
  /\ steps = 0
  /\ last = NoRequest
  /\ inflight = Idle

(***************************************************************************)
(* The Speaker Registry.                                                   *)
(***************************************************************************)
\* the names of the speaker list kept beside the document, most recently
\* used first: set_speaker reads and writes METADATA_PATH and nothing else,
\* and no other handler keeps such a list, so it is empty in every state
SpeakerRegistry == <<>>

(***************************************************************************)
(* Behaviours that start with the entry of a file that is gone.            *)
(***************************************************************************)
\* the names of files removed from the store by hand whose entries the
\* document still holds
Tombstones(st) == {N999999} \ DOMAIN st

TombstoneDocs(st) ==
  {Put(d, t, DictEntry([label |-> HELLO, speaker |-> BOB])) :
     d \in InitDocs(st), t \in Tombstones(st)}

TombstoneInit ==
  /\ store \in InitStores
  /\ meta \in {MetaOk(d) : d \in TombstoneDocs(store)}
  /\ clock = 2
  /\ steps = 0
  /\ last = NoRequest
  /\ inflight = Idle

(***************************************************************************)
(* One action per request.                                                 *)
(***************************************************************************)
\* GET /: list_files, with the write of the document when dirty
List ==
  /\ steps < MaxSteps
  /\ \E outcome \in WriteOutcomes, r \in {ListFiles(store, meta)} :
       /\ (~r.dirty => outcome = "ok")
       /\ meta' = IF r.dirty THEN WriteDoc(meta, r.data, outcome) ELSE meta
       /\ last' = [op |-> "list", items |-> r.items, dirty |-> r.dirty,
                   outcome |-> outcome, pre |-> meta]
  /\ steps' = steps + 1
  /\ UNCHANGED inflight
  /\ UNCHANGED <<store, clock>>

\* the state after a field updater: op names it, outcome is what a write of
\* the document does during the request, h is what the handler gave
Updated(op, filename, value, outcome, h) ==
  /\ meta' = h.m
  /\ last' = [op |-> op, filename |-> filename, value |-> value, resp |-> h.resp,
              pre |-> meta, outcome |-> outcome]
  /\ steps' = steps + 1
  /\ UNCHANGED inflight
  /\ UNCHANGED <<store, clock>>

SetLabel ==
  /\ steps < MaxSteps
  /\ \E filename \in UpdateNames, v \in LabelInputs :
       \E outcome \in OutcomesFor(filename) :
       \E h \in {set_label(store, meta, clock, filename, v, outcome)} :
         Updated("label", filename, v, outcome, h)

SetSpeaker ==
  /\ steps < MaxSteps
  /\ \E filename \in UpdateNames, v \in SpeakerInputs :
       \E outcome \in OutcomesFor(filename) :
       \E h \in {set_speaker(store, meta, clock, filename, v, outcome)} :
         Updated("speaker", filename, v, outcome, h)

SetVerified ==
  /\ steps < MaxSteps
  /\ \E filename \in UpdateNames, v \in BOOLEAN :
       \E outcome \in OutcomesFor(filename) :
       \E h \in {set_verified(store, meta, clock, filename, v, outcome)} :
         /\ meta' = h.m
         /\ last' = [op |-> "verify", filename |-> filename, verified |-> v,
                     resp |-> h.resp, pre |-> meta, outcome |-> outcome]
         /\ steps' = steps + 1
         /\ UNCHANGED inflight
         /\ UNCHANGED <<store, clock>>

SetLanguage ==
  /\ steps < MaxSteps
  /\ \E filename \in UpdateNames, v \in LangInputs :
       \E outcome \in OutcomesFor(filename) :
       \E h \in {set_language(store, meta, clock, filename, v)} :
         Updated("lang", filename, v, outcome, h)

SetGender ==
  /\ steps < MaxSteps
  /\ \E filename \in UpdateNames, v \in GenderInputs :
       \E outcome \in OutcomesFor(filename) :
       \E h \in {set_gender(store, meta, clock, filename, v, outcome)} :
         Updated("gender", filename, v, outcome, h)

Upload ==
  /\ steps < MaxSteps
  /\ \E files \in Batches :
       \E r \in {upload(store, meta, clock, files)} :
         /\ store' = r.st
         /\ meta' = r.m
         /\ clock' = r.clk
         /\ last' = [op |-> "upload", files |-> files, allocated |-> r.allocated,
                     pre |-> meta, preStore |-> store]
  /\ steps' = steps + 1
  /\ UNCHANGED inflight

UploadOutside ==
  /\ steps < MaxSteps
  /\ \E uf \in OutsideFileInputs, form \in Forms :
       \E r \in {upload_outside(store, meta, clock, uf, form)} :
         /\ store' = r.st
         /\ meta' = r.m
         /\ clock' = r.clk
         /\ last' = [op |-> "upload_outside", files |-> <<uf>>,
                     allocated |-> r.allocated, resp |-> r.resp, pre |-> meta,
                     preStore |-> store]
  /\ steps' = steps + 1
  /\ UNCHANGED inflight

Download ==
  /\ steps < MaxSteps
  /\ \E filename \in ServeNames :
       last' = [op |-> "download", filename |-> filename,
                resp |-> download(store, meta, filename)]
  /\ steps' = steps + 1
  /\ UNCHANGED inflight
  /\ UNCHANGED <<store, meta, clock>>

Stream ==
  /\ steps < MaxSteps
  /\ \E filename \in ServeNames :
       last' = [op |-> "stream", filename |-> filename,
                resp |-> stream(store, meta, filename)]
  /\ steps' = steps + 1
  /\ UNCHANGED inflight
  /\ UNCHANGED <<store, meta, clock>>

Next ==
  \/ List
  \/ SetLabel
  \/ SetSpeaker
  \/ SetVerified
  \/ SetLanguage
  \/ SetGender
  \/ Upload
  \/ UploadOutside
  \/ Download
  \/ Stream

Spec == Init /\ [][Next]_vars

TombstoneSpec == TombstoneInit /\ [][Next]_vars

(***************************************************************************)
(* A listing pass beside the requests of the event loop.  home is a plain  *)
(* def, which the framework runs on a worker thread: its list_files can be *)
(* anywhere between loading the document and writing it back while the    *)
(* event loop serves an async handler.  An async updater has no await      *)
(* between its load and its write, so the loop runs it in one piece.       *)
(***************************************************************************)
\* the document a listing writes back is built on the one it loaded
FreshDoc(loaded, current) == current
StaleDoc(loaded, current) == loaded

\* list_files loads the document
ListRead ==
  /\ inflight.pc = "idle"
  /\ inflight' = [pc |-> "loaded", loaded |-> meta]
  /\ UNCHANGED <<store, meta, clock, steps, last>>

\* list_files walks the store, sorts, and writes the document when dirty;
\* after is the number of requests the event loop has served by then
ListWrite ==
  /\ inflight.pc = "loaded"
  /\ \E outcome \in WriteOutcomes :
       \E r \in {ListFiles(store, StaleDoc(inflight.loaded, meta))} :
         /\ (~r.dirty => outcome = "ok")
         /\ meta' = IF r.dirty THEN WriteDoc(meta, r.data, outcome) ELSE meta
         /\ inflight' = [pc |-> "listed", loaded |-> inflight.loaded,
                         dirty |-> r.dirty, outcome |-> outcome, after |-> steps]
  /\ UNCHANGED <<store, clock, steps, last>>

RaceNext ==
  \/ ListRead
  \/ ListWrite
  \/ SetLabel

RaceSpec == Init /\ [][RaceNext]_vars
(***************************************************************************)
(* An upload step by step.  For each accepted file the handler creates the *)
(* target with open("wb"), writes the content and closes it, and only then *)
(* loads the document, sets the entry and writes the document.  The        *)
(* process can die, or the write of the content can raise, at any step.    *)
(***************************************************************************)
\* the request has taken its files and computed its first number
UploadBegin ==
  /\ inflight.pc = "idle"
  /\ \E files \in Batches :
       inflight' = [pc |-> "next", op |-> "upload", rest |-> files,
                    form |-> CHOOSE f \in Forms : f.label = <<>>,
                    next |-> FirstNum(store), target |-> <<>>,
                    allocated |-> {}, saved |-> {}]
  /\ UNCHANGED <<store, meta, clock, steps, last>>

UploadOutsideBegin ==
  /\ inflight.pc = "idle"
  /\ \E uf \in OutsideFileInputs, form \in Forms :
       inflight' = [pc |-> "next", op |-> "upload_outside", rest |-> <<uf>>,
                    form |-> form, next |-> FirstNum(store), target |-> <<>>,
                    allocated |-> {}, saved |-> {}]
  /\ UNCHANGED <<store, meta, clock, steps, last>>

\* what is left to do once the file at the head of rest is dealt with
Proceed(u) ==
  [u EXCEPT !.rest = Tail(u.rest),
            !.pc = IF Tail(u.rest) = <<>> THEN "done" ELSE "next"]

\* the extension test, the probing loop and target.open("wb"): a rejected
\* file is passed over, an accepted one has its target created empty
UploadOpen ==
  /\ inflight.pc = "next"
  /\ LET uf == Head(inflight.rest)
         ext == UploadExt(uf.filename)
         n == Probe(store, meta, inflight.next, ext)
         target == Candidate(n, ext)
     IN IF ext \notin ALLOWED_EXTENSIONS
        THEN inflight' = Proceed(inflight) /\ UNCHANGED store
        ELSE /\ store' = Put(store, target, RegularFile(0, clock))
             /\ inflight' = [inflight EXCEPT !.pc = "opened", !.target = target,
                                             !.next = Advance(n),
                                             !.allocated = @ \cup {target}]
  /\ UNCHANGED <<meta, clock, steps, last>>

\* out.write(content) and the close of the file
UploadWrite ==
  /\ inflight.pc = "opened"
  /\ store' = Put(store, inflight.target, RegularFile(Head(inflight.rest).size, clock))
  /\ clock' = clock + 1
  /\ inflight' = [inflight EXCEPT !.pc = "saved", !.saved = @ \cup {inflight.target}]
  /\ UNCHANGED <<meta, steps, last>>

\* the handler reaches its metadata block with the file of u
EntryReadyEarly(u) == u.pc \in {"opened", "saved"}
EntryReady(u) == u.pc = "saved"

\* the metadata block: load the document, set the entry from target.stat(),
\* write the document
UploadEntry ==
  /\ EntryReady(inflight)
  /\ LET uf == Head(inflight.rest)
         f == store[inflight.target]
         stat == [size |-> f.size, mtime |-> f.mtime]
         rec == IF inflight.op = "upload" THEN UploadRecord(stat)
                ELSE OutsideRecord(uf, inflight.form, stat)
     IN meta' = WriteDoc(meta, Put(LoadDoc(meta), inflight.target, DictEntry(rec)),
                         uf.outcome)
  /\ inflight' = Proceed(inflight)
  /\ UNCHANGED <<store, clock, steps, last>>

\* the process is killed, or out.write raises and the request ends: a
\* file being written keeps the part of its content that reached the disk
Crash ==
  /\ inflight.pc \in {"next", "opened", "saved"}
  /\ IF inflight.pc = "opened"
     THEN \E part \in {0, Head(inflight.rest).size - 1} :
            store' = Put(store, inflight.target, RegularFile(part, clock))
     ELSE UNCHANGED store
  /\ inflight' = [inflight EXCEPT !.pc = "crashed"]
  /\ UNCHANGED <<meta, clock, steps, last>>

UploadNext ==
  \/ UploadBegin
  \/ UploadOutsideBegin
  \/ UploadOpen
  \/ UploadWrite
  \/ UploadEntry
  \/ Crash

UploadSpec == Init /\ [][UploadNext]_vars

(***************************************************************************)
(* Two uploads on the event loop.  A handler runs alone from one await to  *)
(* the next.  upload probes for a free name and creates the target in one  *)
(* piece, then awaits the body inside the with-block.  upload_outside      *)
(* probes for a free name, awaits the body, and only then creates the      *)
(* target.                                                                 *)
(***************************************************************************)
Requests == {1, 2}

PairFiles == {UploadFile(CLIP_MP3, "ok"), UploadFile(NOTES, "ok")}
PairBatches == UNION {[1..k -> PairFiles] : k \in 1..MaxBatch}
PairForm == CHOOSE f \in Forms : f.label = <<>>

PairInit ==
  /\ store \in InitStores
  /\ meta \in InitMetas(store)
  /\ clock = 2
  /\ steps = 0
  /\ last = NoRequest
  /\ inflight = [r \in Requests |-> Idle]

\* the request u as it stands at its first accepted file
Started(op, files, st) ==
  [pc |-> "next", op |-> op, rest |-> files, form |-> PairForm,
   next |-> FirstNum(st), target |-> <<>>, allocated |-> {}, saved |-> {}]

\* upload from the top of its loop to the await inside the with-block: a
\* rejected file is drained and passed over, an accepted one has its name
\* probed and its target created empty
OpenStep(u, st, m, clk) ==
  LET uf == Head(u.rest)
      ext == UploadExt(uf.filename)
      n == Probe(st, m, u.next, ext)
      target == Candidate(n, ext)
  IN IF ext \notin ALLOWED_EXTENSIONS
     THEN [u |-> Proceed(u), st |-> st]
     ELSE [u |-> [u EXCEPT !.pc = "reading", !.target = target, !.next = Advance(n),
                           !.allocated = @ \cup {target}],
           st |-> Put(st, target, RegularFile(0, clk))]

\* /upload from its scan to its first await
PairBeginUpload(r) ==
  /\ inflight[r].pc = "idle"
  /\ \E files \in PairBatches :
       \E o \in {OpenStep(Started("upload", files, store), store, meta, clock)} :
         /\ inflight' = [inflight EXCEPT ![r] = o.u]
         /\ store' = o.st
  /\ UNCHANGED <<meta, clock, steps, last>>

\* /upload from the close of one file to the await of the next
PairOpen(r) ==
  /\ inflight[r].pc = "next"
  /\ \E o \in {OpenStep(inflight[r], store, meta, clock)} :
       /\ inflight' = [inflight EXCEPT ![r] = o.u]
       /\ store' = o.st
  /\ UNCHANGED <<meta, clock, steps, last>>

\* /upload_outside from its scan to await file.read(): a rejected file ends
\* the request, an accepted one has its name probed and nothing created
PairBeginOutside(r) ==
  /\ inflight[r].pc = "idle"
  /\ \E uf \in PairFiles :
       LET u == Started("upload_outside", <<uf>>, store)
           ext == UploadExt(uf.filename)
           n == Probe(store, meta, u.next, ext)
           target == Candidate(n, ext)
       IN inflight' = [inflight EXCEPT ![r] =
            IF ext \notin ALLOWED_EXTENSIONS THEN Proceed(u)
            ELSE [u EXCEPT !.pc = "reading", !.target = target, !.next = Advance(n),
                           !.allocated = @ \cup {target}]]
  /\ UNCHANGED <<store, meta, clock, steps, last>>

\* after the body is read: the content is written (upload_outside opens
\* its target here, truncating what the name holds) and the entry is set
PairSave(r) ==
  /\ inflight[r].pc = "reading"
  /\ LET u == inflight[r]
         uf == Head(u.rest)
         stat == [size |-> uf.size, mtime |-> clock]
         rec == IF u.op = "upload" THEN UploadRecord(stat)
                ELSE OutsideRecord(uf, u.form, stat)
     IN /\ store' = Put(store, u.target, RegularFile(uf.size, clock))
        /\ meta' = WriteDoc(meta, Put(LoadDoc(meta), u.target, DictEntry(rec)), uf.outcome)
        /\ inflight' = [inflight EXCEPT ![r] =
                          [Proceed(u) EXCEPT !.saved = @ \cup {u.target}]]
  /\ clock' = clock + 1
  /\ UNCHANGED <<steps, last>>

PairNext ==
  \E r \in Requests :
    \/ PairBeginUpload(r)
    \/ PairOpen(r)
    \/ PairBeginOutside(r)
    \/ PairSave(r)

PairSpec == PairInit /\ [][PairNext]_vars

(***************************************************************************)
(* Field updates that name a file of the store directory that is not an    *)
(* audio file: a text file, or the metadata document itself.               *)
(***************************************************************************)
StrayNames == {NOTES, METADATA_NAME}

StrayUpdate ==
  /\ steps < MaxSteps
  /\ \E filename \in StrayNames :
       \E outcome \in OutcomesFor(filename) :
         \/ \E v \in LabelInputs :
              \E h \in {set_label(store, meta, clock, filename, v, outcome)} :
                Updated("label", filename, v, outcome, h)
         \/ \E v \in SpeakerInputs :
              \E h \in {set_speaker(store, meta, clock, filename, v, outcome)} :
                Updated("speaker", filename, v, outcome, h)
         \/ \E v \in LangInputs :
              \E h \in {set_language(store, meta, clock, filename, v)} :
                Updated("lang", filename, v, outcome, h)
         \/ \E v \in GenderInputs :
              \E h \in {set_gender(store, meta, clock, filename, v, outcome)} :
                Updated("gender", filename, v, outcome, h)

StrayNext ==
  \/ StrayUpdate
  \/ SetVerified

StraySpec == Init /\ [][StrayNext]_vars

(***************************************************************************)
(* The sanitizer on its own: _safe_filename applied to names of every      *)
(* shape, short ones over a small alphabet and long ones around the limit. *)
(***************************************************************************)
SanitizerAlphabet == {"/", ".", " ", "a", "_"}
ShortNames == UNION {[1..n -> SanitizerAlphabet] : n \in 0..MaxNameLen}
Repeat(c, n) == [i \in 1..n |-> c]
LongNames ==
  { Repeat("a", NAME_MAX), Repeat("a", NAME_MAX + 1), Repeat(".", NAME_MAX + 1),
    Repeat("a", NAME_ROOT_KEEP + 10) \o <<".">> \o Repeat("b", NAME_EXT_KEEP + 10),
    Repeat("a", NAME_ROOT_KEEP - 30) \o <<".">> \o Repeat("b", NAME_EXT_KEEP + 40),
    <<"d", "/">> \o Repeat(" ", NAME_MAX) \o <<"x">> }
SanitizerInputs == ShortNames \cup LongNames

SanitizerInit ==
  /\ store = <<>>
  /\ meta = MetaAbsent
  /\ clock = 0
  /\ steps = 0
  /\ last = NoRequest
  /\ inflight = Idle

Sanitize ==
  /\ steps < MaxSteps
  /\ \E name \in SanitizerInputs :
       last' = [op |-> "sanitize", name |-> name, out |-> SafeFilename(name)]
  /\ steps' = steps + 1
  /\ UNCHANGED inflight
  /\ UNCHANGED <<store, meta, clock>>

SanitizerNext == Sanitize

SanitizerSpec == SanitizerInit /\ [][SanitizerNext]_vars

(***************************************************************************)
(* Vocabulary of the properties.                                           *)
(***************************************************************************)
UpdateOps == {"label", "speaker", "verify", "lang", "gender"}
UploadOps == {"upload", "upload_outside"}
ServeOps == {"download", "stream"}
AnnotationFields == {"label", "speaker", "lang", "gender", "verified"}
RecordFields == AnnotationFields \cup {"size_h", "size_bytes", "mtime_iso"}

\* the annotation field an updater sets
FieldOfOp(op) ==
  CASE op = "label" -> "label"
    [] op = "speaker" -> "speaker"
    [] op = "verify" -> "verified"
    [] op = "lang" -> "lang"
    [] op = "gender" -> "gender"

\* the file a request names, once its name is sanitized
NamedFile(l) == SafeFilename(Strip(l.filename))

\* the regular files of a store directory, and those with an audio extension
StoredFiles(st) == {n \in DOMAIN st : st[n].kind \in {"file", "link"}}
AudioFiles(st) == {n \in StoredFiles(st) : Lower(PathSuffix(n)) \in ALLOWED_EXTENSIONS}

\* the value of an annotation field of the file name in the document m: what
\* the entry holds, the field's default when the entry or the field is missing
FieldDefault(field) ==
  CASE field = "label" -> <<>>
    [] field = "speaker" -> <<>>
    [] field = "lang" -> KHMER
    [] field = "gender" -> MALE
    [] field = "verified" -> FALSE

FieldValue(m, name, field) ==
  LET d == LoadDoc(m)
  IN IF name \notin DOMAIN d THEN FieldDefault(field)
     ELSE IF d[name].shape = "str"
     THEN (IF field = "label" THEN d[name].text ELSE FieldDefault(field))
     ELSE IF field = "verified"
     THEN "verified" \in DOMAIN d[name].fields /\ d[name].fields["verified"] = TRUE
     ELSE IF field \in DOMAIN d[name].fields /\ d[name].fields[field] # <<>>
     THEN d[name].fields[field]
     ELSE FieldDefault(field)

\* the value an updater is asked to store, as the handler normalizes it
RequestedValue(l) ==
  CASE l.op = "label" -> CleanLabel(Strip(l.value))
    [] l.op = "speaker" -> Strip(l.value)
    [] l.op = "verify" -> l.verified
    [] l.op = "lang" -> Strip(l.value)
    [] l.op = "gender" -> Strip(l.value)

\* the request carries a value its endpoint accepts
AllowedLangs == {KHMER, ENGLISH, MIX_BOTH}
AllowedGenders == {MALE, FEMALE}
ValidValue(l) ==
  CASE l.op = "lang" -> l.value \in AllowedLangs
    [] l.op = "gender" -> l.value \in AllowedGenders
    [] OTHER -> TRUE

\* the numeric id of a stored name
IdOf(name) == ParseInt(PathStem(name))

\* the ids of the regular files whose name without extension is six digits
SixDigitIds(st) ==
  {IdOf(n) : n \in {x \in StoredFiles(st) :
                      Len(PathStem(x)) = 6 /\ IsDigitText(PathStem(x))}}
MaxPlusOne(st) == IF SixDigitIds(st) = {} THEN 1 ELSE MaxOf(SixDigitIds(st)) + 1

\* the response is the soft error e
IsError(resp, e) == resp.kind = "error" /\ resp.error = e

IsPrefix(a, b) == Len(a) <= Len(b) /\ SubSeq(b, 1, Len(a)) = a

(***************************************************************************)
(* C1.  A successful field update leaves the other annotation fields of    *)
(* the file's entry as they were before the call.                          *)
(***************************************************************************)
C1_OtherFieldsKept ==
  (last.op \in UpdateOps /\ last.resp.kind = "ok") =>
    \A field \in AnnotationFields \ {FieldOfOp(last.op)} :
      FieldValue(meta, NamedFile(last), field)
        = FieldValue(last.pre, NamedFile(last), field)

(***************************************************************************)
(* C2.  After an updater was called with a valid value for an existing     *)
(* audio file and did not answer an error, the next listing shows the file *)
(* with that value in the field.                                           *)
(***************************************************************************)
C2_RoundTrip ==
  ( /\ last.op \in UpdateOps
    /\ ValidValue(last)
    /\ NamedFile(last) \in AudioFiles(store)
    /\ last.resp.kind \notin {"error", "crash"} ) =>
    \E i \in 1..Len(ListFiles(store, meta).items) :
      /\ ListFiles(store, meta).items[i].name = NamedFile(last)
      /\ ListFiles(store, meta).items[i][FieldOfOp(last.op)] = RequestedValue(last)

(***************************************************************************)
(* C3.  The names an upload allocates have strictly increasing ids in      *)
(* batch order, are pairwise distinct and are none of the names the store  *)
(* held before; what the store held is still there, untouched.             *)
(***************************************************************************)
C3_AllocationDistinct ==
  last.op \in UploadOps =>
    /\ \A i \in 1..(Len(last.allocated) - 1) :
         IdOf(last.allocated[i]) < IdOf(last.allocated[i + 1])
    /\ \A i, j \in 1..Len(last.allocated) :
         i # j => last.allocated[i] # last.allocated[j]
    /\ \A i \in 1..Len(last.allocated) :
         /\ last.allocated[i] \notin DOMAIN last.preStore
         /\ last.allocated[i] \in DOMAIN store
    /\ \A n \in DOMAIN last.preStore :
         n \in DOMAIN store /\ store[n] = last.preStore[n]

\* a batch of two accepted files uploaded into a store that held files
C3_Witness ==
  /\ last.op = "upload"
  /\ Len(last.allocated) = 2
  /\ DOMAIN last.preStore # {}

(***************************************************************************)
(* C4.  As claimed: the first id an upload allocates is max+1 over the     *)
(* files whose name without extension is six digits, and 1 without any.    *)
(***************************************************************************)
C4_FirstIsMaxPlusOne ==
  (last.op \in UploadOps /\ last.allocated # <<>>) =>
    IdOf(last.allocated[1]) = MaxPlusOne(last.preStore)

(***************************************************************************)
(* C4, amended.  The first id an upload allocates is the smallest id from  *)
(* max+1 on (1 without any six-digit file) whose name, with the file's     *)
(* extension, is not in the store directory: max+1 itself when that name   *)
(* is free.                                                                *)
(***************************************************************************)
C4_FirstIsSmallestFree ==
  (last.op \in UploadOps /\ last.allocated # <<>>) =>
    LET name == last.allocated[1]
        ext == PathSuffix(name)
        from == MaxPlusOne(last.preStore)
    IN /\ IdOf(name) >= from
       /\ name = ZeroPad(Decimal(IdOf(name)), 6) \o ext
       /\ name \notin DOMAIN last.preStore
       /\ \A k \in from..(IdOf(name) - 1) :
            ZeroPad(Decimal(k), 6) \o ext \in DOMAIN last.preStore

\* clip.mp3 into an empty store is stored as 000001.mp3 and clip2.wav, next
\* in the batch, as 000002.wav
C4_Witness ==
  /\ last.op = "upload"
  /\ last.preStore = <<>>
  /\ last.allocated = <<N1, N2>>

(***************************************************************************)
(* C5.  Every name an upload allocates is six decimal digits and an        *)
(* allowed extension.                                                      *)
(***************************************************************************)
C5_SixDigitNames ==
  last.op \in UploadOps =>
    \A i \in 1..Len(last.allocated) :
      /\ Len(PathStem(last.allocated[i])) = 6
      /\ IsDigitText(PathStem(last.allocated[i]))
      /\ PathSuffix(last.allocated[i]) \in ALLOWED_EXTENSIONS

(***************************************************************************)
(* C6.  After a listing pass with no failed write, the document holds for  *)
(* every audio file of the store an entry under its name that is a full    *)
(* record.                                                                 *)
(***************************************************************************)
C6_ListingCompletes ==
  (last.op = "list" /\ last.outcome = "ok") =>
    \A n \in AudioFiles(store) :
      /\ meta.state = "ok"
      /\ n \in DOMAIN meta.doc
      /\ meta.doc[n].shape = "dict"
      /\ RecordFields \subseteq DOMAIN meta.doc[n].fields

\* a pass that wrote: a file had no entry, a bare string or a partial record
C6_Witness ==
  /\ last.op = "list"
  /\ last.dirty
  /\ last.outcome = "ok"
  /\ \E n \in AudioFiles(store) :
       \/ n \notin DOMAIN LoadDoc(last.pre)
       \/ LoadDoc(last.pre)[n].shape = "str"

(***************************************************************************)
(* C7.  A second listing pass right after a pass with no failed write      *)
(* returns the same items and is not dirty.                                *)
(***************************************************************************)
C7_ListingIdempotent ==
  (last.op = "list" /\ last.outcome = "ok") =>
    /\ ListFiles(store, meta).items = last.items
    /\ ~ListFiles(store, meta).dirty

(***************************************************************************)
(* C8.  A /lang or /gender request whose value is outside the allowed set  *)
(* is answered with the endpoint's error and leaves the document as it     *)
(* was.  Stated for requests that name a stored file, where no other error *)
(* competes for the answer.                                                *)
(***************************************************************************)
C8_InvalidRejected ==
  (last.op \in {"lang", "gender"} /\ NamedFile(last) \in StoredFiles(store)
     /\ ~ValidValue(last)) =>
    /\ IsError(last.resp, IF last.op = "lang" THEN INVALID_LANGUAGE ELSE INVALID_GENDER)
    /\ meta = last.pre

(***************************************************************************)
(* C9.  As claimed: a field update naming a file that is not in the store  *)
(* is answered "File not found" and leaves the document as it was.         *)
(***************************************************************************)
C9_AbsentIsNotFound ==
  (last.op \in UpdateOps /\ NamedFile(last) \notin StoredFiles(store)) =>
    (IsError(last.resp, NOT_FOUND) /\ meta = last.pre)

(***************************************************************************)
(* C9, amended.  A field update naming a file that is not in the store     *)
(* leaves the document as it was and is answered with an error: "File not  *)
(* found", unless the endpoint is /lang or /gender and the value is not    *)
(* allowed, which is checked first and answered "Invalid language" or      *)
(* "Invalid gender".                                                       *)
(***************************************************************************)
C9_AbsentIsError ==
  (last.op \in UpdateOps /\ NamedFile(last) \notin StoredFiles(store)) =>
    /\ meta = last.pre
    /\ IsError(last.resp,
         IF last.op = "lang" /\ Strip(IF last.value = <<>> THEN KHMER ELSE last.value)
                                  \notin AllowedLangs
         THEN INVALID_LANGUAGE
         ELSE IF last.op = "gender"
                   /\ Strip(IF last.value = <<>> THEN MALE ELSE last.value) \notin AllowedGenders
         THEN INVALID_GENDER
         ELSE NOT_FOUND)

\* an update naming a directory of the store, answered "File not found"
C9_Witness ==
  /\ last.op \in UpdateOps
  /\ NamedFile(last) \in DOMAIN store
  /\ NamedFile(last) \notin StoredFiles(store)
  /\ IsError(last.resp, NOT_FOUND)
  /\ last.pre.state = "ok"

(***************************************************************************)
(* C10.  /download and /stream answer 400, answer 404, or serve a file     *)
(* whose resolved path lies inside the store directory.                    *)
(***************************************************************************)
C10_ServedInsideStore ==
  last.op \in ServeOps =>
    \/ last.resp.status \in {400, 404}
    \/ /\ last.resp.status = 200
       /\ IsPrefix(UPLOAD_DIR, last.resp.path)
       /\ last.resp.path \notin OutsideFiles

\* a request for a name that resolves outside the store, answered 400
C10_Witness ==
  /\ last.op \in ServeOps
  /\ last.filename = LINK
  /\ last.resp.status = 400
(***************************************************************************)
(* C11.  Whatever the name, the sanitizer returns 1 to 200 characters, all *)
(* of them letters, digits, dot, underscore or dash (so none is a path     *)
(* separator); the result is neither "." nor "..", and it is "file" when   *)
(* what follows the last separator is, once trimmed, empty, "." or "..".   *)
(***************************************************************************)
NameChars == UpperSet \cup LowerSet \cup DigitSet \cup {".", "_", "-"}

C11_SanitizerOutput ==
  last.op = "sanitize" =>
    /\ Len(last.out) \in 1..200
    /\ \A i \in 1..Len(last.out) : last.out[i] \in NameChars /\ last.out[i] # "/"
    /\ last.out \notin {<<".">>, <<".", ".">>}
    /\ Strip(Basename(last.name)) \in {<<>>, <<".">>, <<".", ".">>}
         => last.out = <<"f", "i", "l", "e">>

\* a name longer than the limit, cut to exactly the limit
C11_Witness ==
  /\ last.op = "sanitize"
  /\ Len(last.name) > 200
  /\ Len(last.out) = 200
  /\ \E i \in 1..Len(last.out) : last.out[i] = "."
(***************************************************************************)
(* C12.  An uploaded file whose sanitized, lower-cased extension is not    *)
(* allowed adds no entry to the store directory and no entry to the        *)
(* document, while every other file of the batch is stored: the new names  *)
(* are exactly the names allocated, one per accepted file, all with an     *)
(* allowed extension; a lone rejected file of /upload_outside changes      *)
(* nothing and is answered "Unsupported file type".                        *)
(***************************************************************************)
AcceptedFile(uf) ==
  Lower(SplitExt(SafeFilename(uf.filename)).ext) \in ALLOWED_EXTENSIONS
AcceptedCount(files) ==
  Cardinality({i \in 1..Len(files) : AcceptedFile(files[i])})
NamesOf(seq) == {seq[i] : i \in 1..Len(seq)}

C12_RejectedNotStored ==
  last.op \in UploadOps =>
    /\ Len(last.allocated) = AcceptedCount(last.files)
    /\ DOMAIN store \ DOMAIN last.preStore = NamesOf(last.allocated)
    /\ \A n \in DOMAIN store \ DOMAIN last.preStore :
         PathSuffix(n) \in ALLOWED_EXTENSIONS /\ store[n].kind = "file"
    /\ DOMAIN LoadDoc(meta) \ DOMAIN LoadDoc(last.pre) \subseteq NamesOf(last.allocated)
    /\ AcceptedCount(last.files) = 0 => (store = last.preStore /\ meta = last.pre)
    /\ (last.op = "upload_outside" /\ AcceptedCount(last.files) = 0)
         => IsError(last.resp, "Unsupported file type")

\* a batch of a rejected file and an accepted one: one new file, recorded
C12_Witness ==
  /\ last.op = "upload"
  /\ Len(last.files) = 2
  /\ AcceptedCount(last.files) = 1
  /\ ~AcceptedFile(last.files[1])
  /\ Len(last.allocated) = 1
  /\ last.allocated[1] \in DOMAIN LoadDoc(meta)
(***************************************************************************)
(* C13.  When a file's entry is a bare string s, a listing pass with no    *)
(* failed write leaves for it a full record with label s, empty speaker,   *)
(* Khmer, Male and not verified, and returns the file with those values.   *)
(***************************************************************************)
LegacyNames(st, m) ==
  {n \in AudioFiles(st) : n \in DOMAIN LoadDoc(m) /\ LoadDoc(m)[n].shape = "str"}

DefaultsWithLabel(r, s) ==
  /\ r.label = s
  /\ r.speaker = <<>>
  /\ r.lang = KHMER
  /\ r.gender = MALE
  /\ r.verified = FALSE

C13_LegacyNormalized ==
  (last.op = "list" /\ last.outcome = "ok") =>
    \A n \in LegacyNames(store, last.pre) :
      /\ meta.state = "ok"
      /\ n \in DOMAIN meta.doc
      /\ meta.doc[n].shape = "dict"
      /\ RecordFields \subseteq DOMAIN meta.doc[n].fields
      /\ DefaultsWithLabel(meta.doc[n].fields, LoadDoc(last.pre)[n].text)
      /\ \E i \in 1..Len(last.items) :
           /\ last.items[i].name = n
           /\ DefaultsWithLabel(last.items[i], LoadDoc(last.pre)[n].text)
(***************************************************************************)
(* C14.  A field updater given a valid value for a stored file whose entry *)
(* is a bare string answers ok, unless its write failed, and leaves for    *)
(* the file a full record whose label is the string, or the new label when *)
(* the label is what the request sets.                                     *)
(***************************************************************************)
C14_LegacyUpdated ==
  ( /\ last.op \in UpdateOps
    /\ ValidValue(last)
    /\ NamedFile(last) \in LegacyNames(store, last.pre)
    /\ ~IsError(last.resp, WRITE_FAILED) ) =>
    /\ last.resp.kind = "ok"
    /\ meta.state = "ok"
    /\ NamedFile(last) \in DOMAIN meta.doc
    /\ meta.doc[NamedFile(last)].shape = "dict"
    /\ RecordFields \subseteq DOMAIN meta.doc[NamedFile(last)].fields
    /\ meta.doc[NamedFile(last)].fields.label =
         IF last.op = "label" THEN RequestedValue(last)
         ELSE LoadDoc(last.pre)[NamedFile(last)].text
(***************************************************************************)
(* C15.  As stated: after a listing pass, a field update or an upload the  *)
(* document holds every key it held before the request.                    *)
(***************************************************************************)
WritingOps == {"list"} \cup UpdateOps \cup UploadOps

TornWithin(l) ==
  l.op \in UploadOps /\ \E i \in 1..Len(l.files) : l.files[i].outcome = "torn"

LabelOps == {"label"} \cup UploadOps

\* the names whose entries the request l wrote
WrittenNames(l) ==
  IF l.op \in UploadOps THEN NamesOf(l.allocated)
  ELSE IF l.resp.kind = "ok" THEN {NamedFile(l)} ELSE {}

CleanText(s) == Len(s) <= LABEL_MAX /\ \A i \in 1..Len(s) : s[i] \notin ControlSet

C16_LabelsClean ==
  (last.op \in LabelOps /\ meta.state = "ok") =>
    \A n \in WrittenNames(last) \cap DOMAIN meta.doc :
      meta.doc[n].shape = "dict" => CleanText(meta.doc[n].fields.label)
(***************************************************************************)
(* C17.  When the write of the document fails, a listing pass still        *)
(* returns an item with every field for each listed file, and a field      *)
(* updater given a valid value for a stored file answers "Failed to write  *)
(* metadata"; an updater answers ok only when its write succeeded and the  *)
(* document holds the valid value it was given.                            *)
(***************************************************************************)
C17_WriteFailureReported ==
  /\ (last.op = "list" /\ last.dirty /\ last.outcome # "ok") =>
       /\ Len(last.items) = Len(ListedNames(store))
       /\ \A i \in 1..Len(last.items) :
            /\ last.items[i].name \in NamesOf(ListedNames(store))
            /\ AnnotationFields \subseteq DOMAIN last.items[i]
  /\ (last.op \in UpdateOps /\ NamedFile(last) \in StoredFiles(store)
        /\ ValidValue(last) /\ last.outcome # "ok") =>
       IsError(last.resp, WRITE_FAILED)
  /\ (last.op \in UpdateOps /\ last.resp.kind = "ok") =>
       /\ last.outcome = "ok"
       /\ meta.state = "ok"
       /\ NamedFile(last) \in DOMAIN meta.doc
       /\ ValidValue(last) =>
            FieldValue(meta, NamedFile(last), FieldOfOp(last.op)) = RequestedValue(last)
(***************************************************************************)
(* C18.  After a successful /speaker update with a non-empty name the      *)
(* Speaker Registry has that name first, holds no name twice and holds at  *)
(* most 100 names.                                                         *)
(***************************************************************************)
C18_RegistryUpdated ==
  (last.op = "speaker" /\ last.resp.kind = "ok" /\ Strip(last.value) # <<>>) =>
    /\ Len(SpeakerRegistry) >= 1
    /\ Len(SpeakerRegistry) <= 100
    /\ SpeakerRegistry[1] = Strip(last.value)
    /\ \A i, j \in 1..Len(SpeakerRegistry) :
         SpeakerRegistry[i] = SpeakerRegistry[j] => i = j
(***************************************************************************)
(* C19.  The write of a listing pass replaces the whole document by the    *)
(* one the pass loaded, normalized: what the event loop wrote between the  *)
(* load and the write is no longer there.                                  *)
(***************************************************************************)
\* the listing pass in flight has written, and nothing was written since
ListingWroteLast ==
  /\ inflight.pc = "listed"
  /\ inflight.dirty
  /\ inflight.outcome = "ok"
  /\ inflight.after = steps

C19_LastWriteWins ==
  ListingWroteLast => meta = MetaOk(ListFiles(store, inflight.loaded).data)

\* /label answered ok for one file, the listing was dirty on account of
\* another, and the document does not hold the label
C19_Witness ==
  /\ ListingWroteLast
  /\ last.op = "label"
  /\ last.resp.kind = "ok"
  /\ last.pre = inflight.loaded
  /\ inflight.loaded.state = "ok"
  /\ FieldValue(meta, NamedFile(last), "label") # RequestedValue(last)
  /\ \E b \in DOMAIN meta.doc \ {NamedFile(last)} :
       b \notin DOMAIN LoadDoc(inflight.loaded) \/ LoadDoc(inflight.loaded)[b] # meta.doc[b]
(***************************************************************************)
(* C20.  At every step of an upload, a crash included, the document holds  *)
(* an entry for a file the upload allocated only if the content of that    *)
(* file has been written in full.                                          *)
(***************************************************************************)
C20_EntryAfterSave ==
  inflight.pc # "idle" =>
    \A n \in inflight.allocated :
      n \in DOMAIN LoadDoc(meta) =>
        /\ n \in inflight.saved
        /\ meta.doc[n].fields.size_bytes = store[n].size

\* a batch stopped while its second file was being written: the first has
\* its entry, the second is in the store, cut short, without one
C20_Witness ==
  /\ inflight.pc = "crashed"
  /\ inflight.target \in inflight.allocated \ inflight.saved
  /\ inflight.target \in DOMAIN store
  /\ store[inflight.target].size < Head(inflight.rest).size
  /\ inflight.target \notin DOMAIN LoadDoc(meta)
  /\ \E n \in inflight.saved : n \in DOMAIN LoadDoc(meta)
(***************************************************************************)
(* C21.  Every item a listing pass returns has the label, speaker, lang,   *)
(* gender and verified values of the entry the pass leaves for that file   *)
(* in the document; a file that had no entry or a bare string is returned  *)
(* with an empty speaker.                                                  *)
(***************************************************************************)
C21_ItemsMatchEntries ==
  (last.op = "list" /\ last.outcome = "ok" /\ meta.state = "ok") =>
    \A i \in 1..Len(last.items) :
      LET n == last.items[i].name
      IN /\ n \in DOMAIN meta.doc
         /\ meta.doc[n].shape = "dict"
         /\ \A f \in AnnotationFields : last.items[i][f] = meta.doc[n].fields[f]
         /\ (n \notin DOMAIN LoadDoc(last.pre) \/ n \in LegacyNames(store, last.pre)) =>
              last.items[i].speaker = <<>>
(***************************************************************************)
(* C22.  Two uploads running side by side never take the same name: the    *)
(* names one request allocated are none of the names the other allocated.  *)
(***************************************************************************)
C22_NamesDistinct ==
  \A r1, r2 \in Requests :
    (r1 # r2 /\ inflight[r1].pc # "idle" /\ inflight[r2].pc # "idle") =>
      inflight[r1].allocated \cap inflight[r2].allocated = {}
(***************************************************************************)
(* C23.  A field update leaves new or changed entries only under the names *)
(* of audio files of the store: none under metadata.json, none under a     *)
(* file whose extension is not an audio extension.                         *)
(***************************************************************************)
C23_OnlyAudioEntries ==
  (last.op \in UpdateOps /\ meta.state = "ok") =>
    \A n \in DOMAIN meta.doc :
      (n \notin DOMAIN LoadDoc(last.pre) \/ LoadDoc(last.pre)[n] # meta.doc[n]) =>
        /\ n # METADATA_NAME
        /\ n \in AudioFiles(store)
====
